---- MODULE Spec2Model ----
(***************************************************************************)
(* Claude Pro/Max OAuth credential manager (src/unnamed/part_000) and the  *)
(* single-task runner of the evaluation (src/evals/webvoyager/test-run.ts).*)
(*                                                                         *)
(* The model follows the asynchronous functions of the module one await    *)
(* at a time: the code between two awaits runs to completion on the        *)
(* single JavaScript thread, so each action is "an I/O operation settles   *)
(* and the continuation runs up to the next I/O operation".  Procs are the *)
(* invocations that can exist side by side; they share the credential      *)
(* file and nothing else.  In Spec, SpecAccessor and SpecFlow the caller   *)
(* is process 1 and awaits each call before it makes the next; in          *)
(* SpecConc, SpecRace and SpecRotate two callers run side by side.         *)
(* SpecRunner and SpecRunnerFair are the runner, which shares no state     *)
(* with the credential manager.                                            *)
(*                                                                         *)
(* Hooks supplied by the caller (onAuthUrlReady, promptForCode, onSuccess) *)
(* are assumed to return normally, and tokens are non-empty strings.       *)
(* A writeFile that succeeds replaces the file in one step, except in      *)
(* SpecRace, where the truncating open and the write are two steps that    *)
(* the steps of another invocation can fall between.  Times are            *)
(* milliseconds on a small epoch so that they fit the checker's integers.  *)
(***************************************************************************)
EXTENDS Integers, Sequences, FiniteSets, TLC

\* ------------------------------------------------------------------ bounds
\* Invocations of the public functions started in one behaviour.
MaxCalls == 2
\* Advances of the wall clock in one behaviour.
MaxTicks == 1
\* Invocations started in one behaviour of the callers that do not wait for
\* each other on one credential file (SpecRace, SpecRotate).
MaxRaceCalls == 3
\* Date.now() in the initial state.
T0 == 5000

\* --------------------------------------------------------------- constants
\* "1 minute buffer" of getClaudeAccessToken.
SAFETY_MARGIN == 60000
\* expires_in is in seconds, expires_at in milliseconds.
MS_PER_SECOND == 1000
\* Attempts of the single-task runner.
MAX_CRASH_RETRIES == 3

Procs == {1, 2}

\* The four optional hooks of AuthFlowCallbacks.
HookNames == {"onAuthUrlReady", "promptForCode", "onSuccess", "onError"}
\* The callbacks objects the callers of the model pass.
HookSets == {{}, HookNames}

\* The amounts by which the wall clock advances.
TickSteps == {1000}

\* ------------------------------------------------------- JavaScript values
\* The value of a property that an object does not have.
Undefined == "undefined"

\* A value held by a variable of type Credentials | null.  k is
\*   "null"   : null
\*   "falsy"  : a falsy JSON scalar (0, false, "")
\*   "truthy" : a truthy JSON value without the three properties (5, [], {})
\*   "object" : an object; a missing property reads as Undefined
\* exk tells what expires_at is: "undefined", "null", "NaN" or "num".
JsValue(k, at, rt, exk, ex) ==
    [k |-> k, access_token |-> at, refresh_token |-> rt, exk |-> exk, expires_at |-> ex]

JsNull == JsValue("null", Undefined, Undefined, "undefined", 0)

\* The content of CREDS_PATH.  k is "missing", "unreadable" (readFile
\* rejects), "badjson" (JSON.parse throws), "falsy", "truthy" or "object";
\* exk is "absent", "null" or "num".
FileValue(k, at, rt, exk, ex) ==
    [k |-> k, access_token |-> at, refresh_token |-> rt, exk |-> exk, expires_at |-> ex]

FileMissing == FileValue("missing", Undefined, Undefined, "absent", 0)

FileOfKind(k) == FileValue(k, Undefined, Undefined, "absent", 0)

\* JSON.stringify(creds, null, 2): properties whose value is undefined are
\* left out, NaN is written as null.
JSON_stringify(c) ==
    FileValue("object", c.access_token, c.refresh_token,
              CASE c.exk = "num" -> "num"
                [] c.exk \in {"NaN", "null"} -> "null"
                [] OTHER -> "absent",
              IF c.exk = "num" THEN c.expires_at ELSE 0)

\* JSON.parse(data) for a file that parses.
JSON_parse(f) ==
    JsValue(f.k, f.access_token, f.refresh_token,
            CASE f.exk = "num" -> "num"
              [] f.exk = "null" -> "null"
              [] OTHER -> "undefined",
            IF f.exk = "num" THEN f.expires_at ELSE 0)

\* loadCredentials with a catch that returns an empty object instead of null.
loadCredentials_emptyObject(f) ==
    IF f.k \in {"missing", "unreadable", "badjson"}
    THEN JsValue("object", Undefined, Undefined, "undefined", 0)
    ELSE JSON_parse(f)

\* loadCredentials: the parsed file, null on any read or parse error.
loadCredentials(f) ==
    IF f.k \in {"missing", "unreadable", "badjson"} THEN JsNull ELSE JSON_parse(f)

\* !creds
IsFalsy(c) == c.k \in {"null", "falsy"}

\* The validity check with the comparison turned round.
IsFresh_inverted(c, t) ==
    CASE c.exk = "num" -> c.expires_at < t + SAFETY_MARGIN
      [] c.exk = "null" -> 0 < t + SAFETY_MARGIN
      [] OTHER -> FALSE

\* The validity check with >= for >.
IsFresh_inclusive(c, t) ==
    CASE c.exk = "num" -> c.expires_at >= t + SAFETY_MARGIN
      [] c.exk = "null" -> 0 >= t + SAFETY_MARGIN
      [] OTHER -> FALSE

\* creds.expires_at > Date.now() + 60000; undefined and NaN compare false,
\* null compares as 0.
IsFresh(c, t) ==
    CASE c.exk = "num" -> c.expires_at > t + SAFETY_MARGIN
      [] c.exk = "null" -> 0 > t + SAFETY_MARGIN
      [] OTHER -> FALSE

\* ------------------------------------------------------------ the provider
\* What the token endpoint answers.  k is
\*   "ok"          : response.ok, body decodes to an object (or to null)
\*   "status"      : non-success HTTP status (401, 400, 500)
\*   "transport"   : fetch rejects
\*   "undecodable" : response.ok but response.json() rejects
\* body is "object" or "null"; eik tells whether expires_in is a number.
Response(k, body, at, rt, eik, ei) ==
    [k |-> k, body |-> body, access_token |-> at, refresh_token |-> rt,
     eik |-> eik, expires_in |-> ei]

NoResponse == Response("none", "null", Undefined, Undefined, "undefined", 0)

\* Failures: an error status comes with a JSON object that describes the
\* error, a rejected fetch or json() with nothing.
FailureResponses ==
    { Response("status", "object", Undefined, Undefined, "undefined", 0),
      Response("transport", "null", Undefined, Undefined, "undefined", 0),
      Response("undecodable", "null", Undefined, Undefined, "undefined", 0) }

\* Success responses that carry access token at and refresh token rt: a
\* complete body with a lifetime of an hour, one whose lifetime ends one
\* second outside the safety margin, a body without refresh_token, an empty
\* object and a null body.
OkResponses(at, rt) ==
    { Response("ok", "object", at, rt, "num", 3600),
      Response("ok", "object", at, rt, "num", 61),
      Response("ok", "object", at, Undefined, "num", 3600),
      Response("ok", "object", Undefined, Undefined, "undefined", 0),
      Response("ok", "null", Undefined, Undefined, "undefined", 0) }

\* The answers to a request of grant type g; the provider issues other
\* tokens for a code than for a refresh token.
Responses(g) ==
    FailureResponses \cup
    (IF g = "refresh_token" THEN OkResponses("B", "R2") ELSE OkResponses("X", "RX"))

\* The exchange functions without their check of response.ok.
ResponseThrows_noStatusCheck(r) == r.k \in {"transport", "undecodable"} \/ r.body = "null"

\* The request throws: !response.ok, a rejected fetch or json(), or reading
\* data.access_token of a null body.
ResponseThrows(r) == r.k # "ok" \/ r.body = "null"

\* The Credentials object with expires_in added as if it were milliseconds.
CredsFromResponse_seconds(r, t) ==
    JsValue("object", r.access_token, r.refresh_token,
            IF r.eik = "num" THEN "num" ELSE "NaN",
            IF r.eik = "num" THEN t + r.expires_in ELSE 0)

\* The Credentials object both exchange functions build from the body.
CredsFromResponse(r, t) ==
    JsValue("object", r.access_token, r.refresh_token,
            IF r.eik = "num" THEN "num" ELSE "NaN",
            IF r.eik = "num" THEN t + r.expires_in * MS_PER_SECOND ELSE 0)

\* ------------------------------------------------------------------- PKCE
\* The values crypto.randomBytes(32).toString('base64url') takes.
Verifiers == {"v1", "v2"}

\* createHash('sha256').update(verifier).digest('base64url')
S256(v) == <<"S256", v>>

\* generatePKCE with the verifier itself as challenge (the "plain" method).
generatePKCE_plain(v) == [verifier |-> v, challenge |-> <<"plain", v>>]

\* generatePKCE, given the random bytes drawn.
generatePKCE(v) == [verifier |-> v, challenge |-> S256(v)]

NoPKCE == [verifier |-> "none", challenge |-> <<"none", "none">>]

\* getAuthorizationURL: the two query parameters that depend on the pair
\* (the others are fixed strings).
getAuthorizationURL(pkce) ==
    [code_challenge |-> pkce.challenge, code_challenge_method |-> "S256",
     state |-> pkce.verifier]

NoURL == [code_challenge |-> <<"none", "none">>, code_challenge_method |-> "none",
          state |-> "none"]

\* ------------------------------------------------------- the pasted code
\* Strings the user pastes, as sequences of characters.
Codes == { <<"a", "#", "s">>, <<"a">> }

\* The strings pasted in SpecFlow: also more than one separator, an empty
\* code and an empty state.
PastedCodes ==
    Codes \cup { <<"a", "#", "s", "#", "t">>, <<"#", "s">>, <<"a", "#">> }

\* String.prototype.split(sep): the sequence of pieces between separators.
RECURSIVE SplitFrom(_, _, _, _)
SplitFrom(s, sep, i, piece) ==
    IF i > Len(s) THEN <<piece>>
    ELSE IF s[i] = sep THEN <<piece>> \o SplitFrom(s, sep, i + 1, <<>>)
    ELSE SplitFrom(s, sep, i + 1, Append(piece, s[i]))

Split(s, sep) == SplitFrom(s, sep, 1, <<>>)

\* ----------------------------------------------------------- the requests
\* The JSON body of a POST to the token endpoint.  has_state is FALSE when
\* state is undefined (JSON.stringify leaves it out).
Request(grant, rt, c, hs, st, cv) ==
    [grant_type |-> grant, refresh_token |-> rt, code |-> c, has_state |-> hs,
     state |-> st, code_verifier |-> cv]

\* Body sent by refreshAccessToken.
RefreshRequest(rt) == Request("refresh_token", rt, <<>>, FALSE, <<>>, "none")

\* Body sent by exchangeCodeForTokens: const [authCode, state] = code.split('#').
ExchangeRequest(c, verifier) ==
    LET parts == Split(c, "#")
    IN  Request("authorization_code", Undefined, parts[1],
                Len(parts) >= 2, IF Len(parts) >= 2 THEN parts[2] ELSE <<>>,
                verifier)

\* ------------------------------------------------------- returned values
\* What an invocation hands to its caller: k is "pending", "null",
\* "undefined", "string" (v is the string), "true", "false", "void" or
\* "throw" (the promise rejects).
Ret(k, v) == [k |-> k, v |-> v]
Pending == Ret("pending", "")
RetNull == Ret("null", "")
RetThrow == Ret("throw", "")
RetVoid == Ret("void", "")

\* return creds.access_token
RetToken(at) == IF at = Undefined THEN Ret("undefined", "") ELSE Ret("string", at)

\* The short-circuit test negated.
IsTruthyToken_inverted(tv) == tv.k # "string"

\* if (existingToken): tokens are non-empty strings.
IsTruthyToken(tv) == tv.k = "string"

\* token !== null
IsNotNull(tv) == tv.k # "null"

\* The token endpoint before any request: it honours the refresh token of
\* the stored credential, has issued no generation and has looked at no
\* request.
ProviderInit ==
    [honoured |-> "R", issued |-> 0, verdict |-> [p \in Procs |-> "none"]]

\* The runner before main() is called.
RunnerInit ==
    [pc |-> "start", crashAttempts |-> 0, context |-> "null", agent |-> "null",
     errorMessage |-> "none", pending |-> "none", exit |-> "none",
     result |-> "none", written |-> 0, launches |-> 0,
     left |-> [context |-> "null", agent |-> "null"], afterLoop |-> FALSE]

\* ------------------------------------------------------------------ state
VARIABLES
    store,       \* content of CREDS_PATH
    now,         \* Date.now()
    ticks,       \* clock advances so far
    calls,       \* invocations started so far
    lastWriter,  \* the invocation that last changed the file (0: none)
    op,          \* op[p]: the public function p is running
    pc,          \* pc[p]: the await p is suspended at
    hooks,       \* hooks[p]: the hooks of the callbacks argument
    creds,       \* creds of getClaudeAccessToken
    tcheck,      \* Date.now() of the validity check
    resp,        \* the response of the token endpoint
    trecv,       \* Date.now() when the Credentials object was built
    newCreds,    \* newCreds of getClaudeAccessToken, creds of authenticateWithClaude
    pkce,        \* pkce of authenticateWithClaude
    authUrl,     \* authUrl of authenticateWithClaude
    code,        \* code of authenticateWithClaude
    token,       \* token of isAuthenticated, existingToken of authenticateWithClaude
    reqs,        \* requests this invocation has sent to the token endpoint
    ev,          \* the observable steps of this invocation, in order
    res,         \* what the invocation returned
    prev,        \* prev[p]: function and result of the caller's previous call
    provider,    \* the token endpoint: the refresh token it honours (SpecRotate)
    runner       \* the single-task runner (SpecRunner)

shared == <<store, now, ticks, calls, lastWriter, provider, runner>>
locals == <<op, pc, hooks, creds, tcheck, resp, trecv, newCreds, pkce, authUrl,
            code, token, reqs, ev, res, prev>>
vars == <<store, now, ticks, calls, lastWriter, op, pc, hooks, creds, tcheck,
          resp, trecv, newCreds, pkce, authUrl, code, token, reqs, ev, res, prev,
          provider, runner>>

Ops == {"getClaudeAccessToken", "isAuthenticated", "authenticateWithClaude",
        "clearCredentials"}

\* The credential files a process can find when it starts: none, an
\* unreadable one, invalid JSON, JSON that is not a credential, partial
\* credentials, and complete credentials around the expiry boundary.
InitStores ==
    { FileMissing, FileOfKind("unreadable"), FileOfKind("badjson"),
      FileOfKind("falsy"), FileOfKind("truthy"),
      FileValue("object", Undefined, "R", "num", T0 + 3600000),
      FileValue("object", "A", Undefined, "num", T0 - 1000),
      FileValue("object", "A", "R", "absent", 0) }
    \cup
    { FileValue("object", "A", "R", "num", T0 + d) :
        d \in {-1000, 59000, 60000, 61000, 3600000} }

\* The credential files the interactive flow is started on: none, an
\* expired credential, one that is one second outside the safety margin and
\* a file without access_token.
FlowInitStores ==
    { FileMissing,
      FileValue("object", "A", "R", "num", T0 - 1000),
      FileValue("object", "A", "R", "num", T0 + 61000),
      FileValue("object", Undefined, "R", "num", T0 + 3600000) }

\* The state of a process that has called nothing yet, with file f.
InitWith(f) ==
    /\ store = f
    /\ now = T0
    /\ ticks = 0
    /\ calls = 0
    /\ lastWriter = 0
    /\ op = [p \in Procs |-> "none"]
    /\ pc = [p \in Procs |-> "idle"]
    /\ hooks = [p \in Procs |-> {}]
    /\ creds = [p \in Procs |-> JsNull]
    /\ tcheck = [p \in Procs |-> 0]
    /\ resp = [p \in Procs |-> NoResponse]
    /\ trecv = [p \in Procs |-> 0]
    /\ newCreds = [p \in Procs |-> JsNull]
    /\ pkce = [p \in Procs |-> NoPKCE]
    /\ authUrl = [p \in Procs |-> NoURL]
    /\ code = [p \in Procs |-> <<>>]
    /\ token = [p \in Procs |-> Pending]
    /\ reqs = [p \in Procs |-> <<>>]
    /\ ev = [p \in Procs |-> <<>>]
    /\ res = [p \in Procs |-> Pending]
    /\ prev = [p \in Procs |-> [op |-> "none", res |-> Pending]]
    /\ provider = ProviderInit
    /\ runner = RunnerInit

Init == \E f \in FlowInitStores : InitWith(f)

InitAccessor == \E f \in InitStores : InitWith(f)

\* ---------------------------------------------------------------- actions
\* A caller invokes public function o with callbacks h: the locals of its
\* previous invocation are gone.
Invoke(p, o, h) ==
    /\ pc[p] \in {"idle", "done"}
    /\ calls' = calls + 1
    /\ op' = [op EXCEPT ![p] = o]
    /\ hooks' = [hooks EXCEPT ![p] = h]
    /\ pc' = [pc EXCEPT ![p] = IF o = "clearCredentials" THEN "unlink" ELSE "readFile"]
    /\ creds' = [creds EXCEPT ![p] = JsNull]
    /\ tcheck' = [tcheck EXCEPT ![p] = 0]
    /\ resp' = [resp EXCEPT ![p] = NoResponse]
    /\ trecv' = [trecv EXCEPT ![p] = 0]
    /\ newCreds' = [newCreds EXCEPT ![p] = JsNull]
    /\ pkce' = [pkce EXCEPT ![p] = NoPKCE]
    /\ authUrl' = [authUrl EXCEPT ![p] = NoURL]
    /\ code' = [code EXCEPT ![p] = <<>>]
    /\ token' = [token EXCEPT ![p] = Pending]
    /\ reqs' = [reqs EXCEPT ![p] = <<>>]
    /\ ev' = [ev EXCEPT ![p] = <<>>]
    /\ res' = [res EXCEPT ![p] = Pending]
    /\ prev' = [prev EXCEPT ![p] = [op |-> op[p], res |-> res[p]]]
    /\ UNCHANGED <<store, now, ticks, lastWriter, provider, runner>>

\* An invocation, while the behaviour has invocations left.
Call(p, o, h) == calls < MaxCalls /\ Invoke(p, o, h)

\* getClaudeAccessToken returns tv to the function that awaits it, which
\* runs on to its own next await: the exported accessor returns tv,
\* isAuthenticated returns token !== null, authenticateWithClaude returns
\* a truthy existingToken and otherwise generates the PKCE pair, builds the
\* URL and starts the browser command.  The response r, the time of receipt
\* t and the Credentials object c are locals of the accessor call: they are
\* what a finished invocation shows, and are gone when the flow goes on.
\* e is the invocation's event log.
AccessorReturns(p, tv, e, r, t, c) ==
    /\ token' = [token EXCEPT ![p] = tv]
    /\ LET goesOn == op[p] = "authenticateWithClaude" /\ ~IsTruthyToken(tv)
       IN  /\ resp' = [resp EXCEPT ![p] = IF goesOn THEN NoResponse ELSE r]
           /\ trecv' = [trecv EXCEPT ![p] = IF goesOn THEN 0 ELSE t]
           /\ newCreds' = [newCreds EXCEPT ![p] = IF goesOn THEN JsNull ELSE c]
    /\ CASE op[p] = "getClaudeAccessToken" ->
              /\ pc' = [pc EXCEPT ![p] = "done"]
              /\ res' = [res EXCEPT ![p] = tv]
              /\ ev' = [ev EXCEPT ![p] = e]
              /\ UNCHANGED <<pkce, authUrl>>
         [] op[p] = "isAuthenticated" ->
              /\ pc' = [pc EXCEPT ![p] = "done"]
              /\ res' = [res EXCEPT ![p] =
                            IF IsNotNull(tv) THEN Ret("true", "") ELSE Ret("false", "")]
              /\ ev' = [ev EXCEPT ![p] = e]
              /\ UNCHANGED <<pkce, authUrl>>
         [] OTHER ->
              IF IsTruthyToken(tv)
              THEN /\ pc' = [pc EXCEPT ![p] = "done"]
                   /\ res' = [res EXCEPT ![p] = tv]
                   /\ ev' = [ev EXCEPT ![p] = e]
                   /\ UNCHANGED <<pkce, authUrl>>
              ELSE \E v \in Verifiers :
                   /\ pkce' = [pkce EXCEPT ![p] = generatePKCE(v)]
                   /\ authUrl' = [authUrl EXCEPT ![p] =
                                     getAuthorizationURL(generatePKCE(v))]
                   /\ ev' = [ev EXCEPT ![p] = e \o <<"generatePKCE", "exec">>]
                   /\ pc' = [pc EXCEPT ![p] = "openUrl"]
                   /\ UNCHANGED res

\* getClaudeAccessToken, from the settling of readFile to the return or to
\* the refresh request.
GetToken_Load(p) ==
    /\ pc[p] = "readFile"
    /\ LET c == loadCredentials(store)
       IN  /\ creds' = [creds EXCEPT ![p] = c]
           /\ IF IsFalsy(c)
              THEN /\ AccessorReturns(p, RetNull, ev[p], resp[p], trecv[p], newCreds[p])
                   /\ UNCHANGED <<tcheck, reqs>>
              ELSE /\ tcheck' = [tcheck EXCEPT ![p] = now]
                   /\ IF IsFresh(c, now)
                      THEN /\ AccessorReturns(p, RetToken(c.access_token), ev[p],
                                              resp[p], trecv[p], newCreds[p])
                           /\ UNCHANGED reqs
                      ELSE /\ reqs' = [reqs EXCEPT ![p] =
                                          Append(@, RefreshRequest(c.refresh_token))]
                           /\ ev' = [ev EXCEPT ![p] = Append(@, "fetch")]
                           /\ pc' = [pc EXCEPT ![p] = "refresh"]
                           /\ UNCHANGED <<token, res, pkce, authUrl, resp, trecv,
                                          newCreds>>
    /\ UNCHANGED <<shared, prev, op, hooks, code>>

\* getClaudeAccessToken that returns the new access token as soon as the
\* refresh is answered and leaves the save to run behind its back.
GetToken_RefreshResponse_returnFirst(p, r) ==
    /\ pc[p] = "refresh"
    /\ IF ResponseThrows(r)
       THEN AccessorReturns(p, RetNull, ev[p], r, trecv[p], newCreds[p])
       ELSE AccessorReturns(p, RetToken(r.access_token), ev[p], r, now,
                            CredsFromResponse(r, now))
    /\ UNCHANGED <<shared, prev, op, hooks, creds, tcheck, code, reqs>>

\* getClaudeAccessToken with a catch that sends the refresh request once
\* more before it gives up.
GetToken_RefreshResponse_retry(p, r) ==
    /\ pc[p] = "refresh"
    /\ IF ResponseThrows(r)
       THEN IF Len(reqs[p]) < 2
            THEN /\ reqs' = [reqs EXCEPT ![p] = Append(@, LET n == Len(reqs[p]) IN reqs[p][n])]
                 /\ ev' = [ev EXCEPT ![p] = Append(@, "fetch")]
                 /\ UNCHANGED <<token, res, pkce, authUrl, resp, trecv, newCreds, pc>>
            ELSE /\ AccessorReturns(p, RetNull, ev[p], r, trecv[p], newCreds[p])
                 /\ UNCHANGED reqs
       ELSE /\ resp' = [resp EXCEPT ![p] = r]
            /\ trecv' = [trecv EXCEPT ![p] = now]
            /\ newCreds' = [newCreds EXCEPT ![p] = CredsFromResponse(r, now)]
            /\ pc' = [pc EXCEPT ![p] = "gt_writeFile"]
            /\ UNCHANGED <<token, res, pkce, authUrl, ev, reqs>>
    /\ UNCHANGED <<shared, prev, op, hooks, creds, tcheck, code>>

\* refreshAccessToken, from the answer of the token endpoint: it throws
\* into the catch of getClaudeAccessToken, or builds the new Credentials
\* and saveCredentials starts.
RefreshAnswered(p, r) ==
    /\ pc[p] = "refresh"
    /\ IF ResponseThrows(r)
       THEN AccessorReturns(p, RetNull, ev[p], r, trecv[p], newCreds[p])
       ELSE /\ resp' = [resp EXCEPT ![p] = r]
            /\ trecv' = [trecv EXCEPT ![p] = now]
            /\ newCreds' = [newCreds EXCEPT ![p] = CredsFromResponse(r, now)]
            /\ pc' = [pc EXCEPT ![p] = "gt_writeFile"]
            /\ UNCHANGED <<token, res, pkce, authUrl, ev>>
    /\ UNCHANGED <<prev, op, hooks, creds, tcheck, code, reqs>>

\* The answer r arrives from an endpoint that keeps no state.
GetToken_RefreshResponse(p, r) == RefreshAnswered(p, r) /\ UNCHANGED shared

\* What mkdir and writeFile of saveCredentials can do: both succeed, mkdir
\* rejects, writeFile rejects before touching the file, writeFile rejects
\* after truncating it.
SaveOutcomes == {"ok", "mkdir_fails", "write_fails", "write_truncates"}

\* A save that never reaches the file.
FileAfterWrite_noop(f, c, out) == f

\* The file after mkdir and writeFile with outcome out.
FileAfterWrite(f, c, out) ==
    CASE out = "ok" -> JSON_stringify(c)
      [] out = "write_truncates" -> FileOfKind("badjson")
      [] OTHER -> f

\* saveCredentials up to the settling of writeFile.
saveCredentials_write(p, out) ==
    /\ store' = FileAfterWrite(store, newCreds[p], out)
    /\ lastWriter' = IF out \in {"ok", "write_truncates"} THEN p ELSE lastWriter
    /\ UNCHANGED <<now, ticks, calls, provider, runner>>

\* saveCredentials, the chmod: it is attempted and a rejection is caught
\* and dropped (the permission bits are read by nothing in the module and
\* are not part of the state).
ChmodEvents(ok) == IF ok THEN <<"chmod">> ELSE <<"chmod", "chmod:failed">>

\* The events of the write step.
WriteEvents(out) == IF out = "mkdir_fails" THEN <<"mkdir">> ELSE <<"mkdir", "writeFile">>

\* getClaudeAccessToken with saveCredentials outside the try block: a
\* failed save rejects the accessor.
GetToken_SaveWrite_uncaught(p, out) ==
    /\ pc[p] = "gt_writeFile"
    /\ saveCredentials_write(p, out)
    /\ IF out = "ok"
       THEN /\ pc' = [pc EXCEPT ![p] = "gt_chmod"]
            /\ ev' = [ev EXCEPT ![p] = @ \o WriteEvents(out)]
            /\ UNCHANGED <<token, res, pkce, authUrl>>
       ELSE /\ pc' = [pc EXCEPT ![p] = "done"]
            /\ res' = [res EXCEPT ![p] = RetThrow]
            /\ ev' = [ev EXCEPT ![p] = @ \o WriteEvents(out)]
            /\ UNCHANGED <<token, pkce, authUrl>>
    /\ UNCHANGED <<prev, op, hooks, creds, tcheck, resp, trecv, newCreds, code, reqs>>

\* getClaudeAccessToken: mkdir and writeFile of saveCredentials settle.
GetToken_SaveWrite(p, out) ==
    /\ pc[p] = "gt_writeFile"
    /\ saveCredentials_write(p, out)
    /\ IF out = "ok"
       THEN /\ pc' = [pc EXCEPT ![p] = "gt_chmod"]
            /\ ev' = [ev EXCEPT ![p] = @ \o WriteEvents(out)]
            /\ UNCHANGED <<token, res, pkce, authUrl, resp, trecv, newCreds>>
       ELSE AccessorReturns(p, RetNull, ev[p] \o WriteEvents(out),
                            resp[p], trecv[p], newCreds[p])
    /\ UNCHANGED <<prev, op, hooks, creds, tcheck, code, reqs>>

\* getClaudeAccessToken: chmod settles and the new access token is returned.
GetToken_SaveChmod(p, ok) ==
    /\ pc[p] = "gt_chmod"
    /\ AccessorReturns(p, RetToken(newCreds[p].access_token), ev[p] \o ChmodEvents(ok),
                       resp[p], trecv[p], newCreds[p])
    /\ UNCHANGED <<shared, prev, op, hooks, creds, tcheck, code, reqs>>

\* authenticateWithClaude without the try around openUrl: a browser that
\* does not open rejects the flow.
Auth_OpenUrl_fatal(p, ok) ==
    /\ pc[p] = "openUrl"
    /\ IF ok
       THEN /\ ev' = [ev EXCEPT ![p] = @ \o
                       <<"openUrl:ok",
                         IF "onAuthUrlReady" \in hooks[p] THEN "onAuthUrlReady"
                                                          ELSE "console.log",
                         IF "promptForCode" \in hooks[p] THEN "promptForCode" ELSE "stdin">>]
            /\ pc' = [pc EXCEPT ![p] = "prompt"]
            /\ UNCHANGED res
       ELSE /\ ev' = [ev EXCEPT ![p] = Append(@, "openUrl:failed")]
            /\ pc' = [pc EXCEPT ![p] = "done"]
            /\ res' = [res EXCEPT ![p] = RetThrow]
    /\ UNCHANGED <<shared, prev, op, hooks, creds, tcheck, resp, trecv, newCreds, pkce,
                   authUrl, code, token, reqs>>

\* authenticateWithClaude: the browser command ends (either way), the URL
\* is surfaced and the code is asked for.
Auth_OpenUrl(p, ok) ==
    /\ pc[p] = "openUrl"
    /\ ev' = [ev EXCEPT ![p] = @ \o
                <<IF ok THEN "openUrl:ok" ELSE "openUrl:failed",
                  IF "onAuthUrlReady" \in hooks[p] THEN "onAuthUrlReady" ELSE "console.log",
                  IF "promptForCode" \in hooks[p] THEN "promptForCode" ELSE "stdin">>]
    /\ pc' = [pc EXCEPT ![p] = "prompt"]
    /\ UNCHANGED <<shared, prev, op, hooks, creds, tcheck, resp, trecv, newCreds, pkce,
                   authUrl, code, token, reqs, res>>

\* authenticateWithClaude with the PKCE pair kept in a variable of the
\* module instead of a local: a flow that started meanwhile has replaced it.
Auth_Code_otherVerifier(p, c) ==
    /\ pc[p] = "prompt"
    /\ code' = [code EXCEPT ![p] = c]
    /\ LET q == CHOOSE q \in Procs : q # p
           v == IF pkce[q] # NoPKCE THEN pkce[q].verifier ELSE pkce[p].verifier
       IN  reqs' = [reqs EXCEPT ![p] = Append(@, ExchangeRequest(c, v))]
    /\ ev' = [ev EXCEPT ![p] = @ \o <<"code", "fetch">>]
    /\ pc' = [pc EXCEPT ![p] = "exchange"]
    /\ UNCHANGED <<shared, prev, op, hooks, creds, tcheck, resp, trecv, newCreds, pkce,
                   authUrl, token, res>>

\* authenticateWithClaude: the code arrives and exchangeCodeForTokens sends
\* its request.
Auth_Code(p, c) ==
    /\ pc[p] = "prompt"
    /\ code' = [code EXCEPT ![p] = c]
    /\ reqs' = [reqs EXCEPT ![p] = Append(@, ExchangeRequest(c, pkce[p].verifier))]
    /\ ev' = [ev EXCEPT ![p] = @ \o <<"code", "fetch">>]
    /\ pc' = [pc EXCEPT ![p] = "exchange"]
    /\ UNCHANGED <<shared, prev, op, hooks, creds, tcheck, resp, trecv, newCreds, pkce,
                   authUrl, token, res>>

\* authenticateWithClaude with the exchange wrapped in a catch that returns
\* null, as the accessor does for a refresh.
Auth_ExchangeResponse_swallowed(p, r) ==
    /\ pc[p] = "exchange"
    /\ resp' = [resp EXCEPT ![p] = r]
    /\ IF ResponseThrows(r)
       THEN /\ pc' = [pc EXCEPT ![p] = "done"]
            /\ res' = [res EXCEPT ![p] = RetNull]
            /\ UNCHANGED <<trecv, newCreds>>
       ELSE /\ trecv' = [trecv EXCEPT ![p] = now]
            /\ newCreds' = [newCreds EXCEPT ![p] = CredsFromResponse(r, now)]
            /\ pc' = [pc EXCEPT ![p] = "au_writeFile"]
            /\ UNCHANGED res
    /\ UNCHANGED <<shared, prev, op, hooks, creds, tcheck, pkce, authUrl, code, token,
                   reqs, ev>>

\* authenticateWithClaude with the exchange wrapped in a catch that reports
\* the error to the onError callback before it rethrows.
Auth_ExchangeResponse_onError(p, r) ==
    /\ pc[p] = "exchange"
    /\ resp' = [resp EXCEPT ![p] = r]
    /\ IF ResponseThrows(r)
       THEN /\ pc' = [pc EXCEPT ![p] = "done"]
            /\ res' = [res EXCEPT ![p] = RetThrow]
            /\ ev' = [ev EXCEPT ![p] = IF "onError" \in hooks[p]
                                         THEN Append(@, "onError") ELSE @]
            /\ UNCHANGED <<trecv, newCreds>>
       ELSE /\ trecv' = [trecv EXCEPT ![p] = now]
            /\ newCreds' = [newCreds EXCEPT ![p] = CredsFromResponse(r, now)]
            /\ pc' = [pc EXCEPT ![p] = "au_writeFile"]
            /\ UNCHANGED <<res, ev>>
    /\ UNCHANGED <<shared, prev, op, hooks, creds, tcheck, pkce, authUrl, code, token,
                   reqs>>

\* exchangeCodeForTokens, from the answer of the token endpoint: it throws
\* to the caller of authenticateWithClaude, or builds the Credentials and
\* saveCredentials starts.
Auth_ExchangeResponse(p, r) ==
    /\ pc[p] = "exchange"
    /\ resp' = [resp EXCEPT ![p] = r]
    /\ IF ResponseThrows(r)
       THEN /\ pc' = [pc EXCEPT ![p] = "done"]
            /\ res' = [res EXCEPT ![p] = RetThrow]
            /\ UNCHANGED <<trecv, newCreds>>
       ELSE /\ trecv' = [trecv EXCEPT ![p] = now]
            /\ newCreds' = [newCreds EXCEPT ![p] = CredsFromResponse(r, now)]
            /\ pc' = [pc EXCEPT ![p] = "au_writeFile"]
            /\ UNCHANGED res
    /\ UNCHANGED <<shared, prev, op, hooks, creds, tcheck, pkce, authUrl, code, token,
                   reqs, ev>>

\* authenticateWithClaude that announces success before it saves.
Auth_SaveWrite_successFirst(p, out) ==
    /\ pc[p] = "au_writeFile"
    /\ saveCredentials_write(p, out)
    /\ ev' = [ev EXCEPT ![p] = @ \o
                (IF "onSuccess" \in hooks[p] THEN <<"onSuccess">> ELSE <<>>) \o
                WriteEvents(out)]
    /\ IF out = "ok"
       THEN /\ pc' = [pc EXCEPT ![p] = "au_chmod"]
            /\ UNCHANGED res
       ELSE /\ pc' = [pc EXCEPT ![p] = "done"]
            /\ res' = [res EXCEPT ![p] = RetThrow]
    /\ UNCHANGED <<prev, op, hooks, creds, tcheck, resp, trecv, newCreds, pkce, authUrl,
                   code, token, reqs>>

\* authenticateWithClaude: mkdir and writeFile of saveCredentials settle; a
\* failure rejects the flow.
Auth_SaveWrite(p, out) ==
    /\ pc[p] = "au_writeFile"
    /\ saveCredentials_write(p, out)
    /\ ev' = [ev EXCEPT ![p] = @ \o WriteEvents(out)]
    /\ IF out = "ok"
       THEN /\ pc' = [pc EXCEPT ![p] = "au_chmod"]
            /\ UNCHANGED res
       ELSE /\ pc' = [pc EXCEPT ![p] = "done"]
            /\ res' = [res EXCEPT ![p] = RetThrow]
    /\ UNCHANGED <<prev, op, hooks, creds, tcheck, resp, trecv, newCreds, pkce, authUrl,
                   code, token, reqs>>

\* authenticateWithClaude with a saveCredentials that lets the rejection of
\* chmod through.
Auth_SaveChmod_uncaught(p, ok) ==
    /\ pc[p] = "au_chmod"
    /\ ev' = [ev EXCEPT ![p] = @ \o ChmodEvents(ok) \o
                (IF ok /\ "onSuccess" \in hooks[p] THEN <<"onSuccess">> ELSE <<>>)]
    /\ pc' = [pc EXCEPT ![p] = "done"]
    /\ res' = [res EXCEPT ![p] =
                  IF ok THEN RetToken(newCreds[p].access_token) ELSE RetThrow]
    /\ UNCHANGED <<shared, prev, op, hooks, creds, tcheck, resp, trecv, newCreds, pkce, authUrl,
                   code, token, reqs>>

\* authenticateWithClaude: chmod settles, onSuccess is called if supplied
\* and the access token is returned.
Auth_SaveChmod(p, ok) ==
    /\ pc[p] = "au_chmod"
    /\ ev' = [ev EXCEPT ![p] = @ \o ChmodEvents(ok) \o
                (IF "onSuccess" \in hooks[p] THEN <<"onSuccess">> ELSE <<>>)]
    /\ pc' = [pc EXCEPT ![p] = "done"]
    /\ res' = [res EXCEPT ![p] = RetToken(newCreds[p].access_token)]
    /\ UNCHANGED <<shared, prev, op, hooks, creds, tcheck, resp, trecv, newCreds, pkce, authUrl,
                   code, token, reqs>>

\* clearCredentials: unlink settles; a rejection (no file, no permission)
\* is swallowed.
Clear_Unlink(p, ok) ==
    /\ pc[p] = "unlink"
    /\ IF ok /\ store.k # "missing"
       THEN /\ store' = FileMissing
            /\ lastWriter' = p
       ELSE UNCHANGED <<store, lastWriter>>
    /\ ev' = [ev EXCEPT ![p] = Append(@, "unlink")]
    /\ pc' = [pc EXCEPT ![p] = "done"]
    /\ res' = [res EXCEPT ![p] = RetVoid]
    /\ UNCHANGED <<now, ticks, calls, provider, runner, prev, op, hooks, creds, tcheck,
                   resp, trecv, newCreds, pkce, authUrl, code, token, reqs>>

\* The wall clock advances.  The code reads it after readFile settles and
\* when a response of the token endpoint arrives, so it is advanced while
\* an invocation waits for one of these.
Tick(d) ==
    /\ ticks < MaxTicks
    /\ \E p \in Procs : pc[p] \in {"readFile", "refresh", "exchange"}
    /\ ticks' = ticks + 1
    /\ now' = now + d
    /\ UNCHANGED <<store, calls, lastWriter, provider, runner, locals>>

\* No invocation is in flight.
Quiet == \A q \in Procs : pc[q] \in {"idle", "done"}

\* The caller of Spec is process 1 and awaits each call before the next.
MayCall(p) == Quiet /\ p = 1

Next ==
    \/ \E p \in Procs, o \in Ops \ {"authenticateWithClaude"} :
          MayCall(p) /\ Call(p, o, {})
    \/ \E p \in Procs, h \in HookSets :
          MayCall(p) /\ Call(p, "authenticateWithClaude", h)
    \/ \E p \in Procs : GetToken_Load(p)
    \/ \E p \in Procs, r \in Responses("refresh_token") : GetToken_RefreshResponse(p, r)
    \/ \E p \in Procs, out \in SaveOutcomes : GetToken_SaveWrite(p, out)
    \/ \E p \in Procs, ok \in BOOLEAN : GetToken_SaveChmod(p, ok)
    \/ \E p \in Procs, ok \in BOOLEAN : Auth_OpenUrl(p, ok)
    \/ \E p \in Procs, c \in Codes : Auth_Code(p, c)
    \/ \E p \in Procs, r \in Responses("authorization_code") : Auth_ExchangeResponse(p, r)
    \/ \E p \in Procs, out \in SaveOutcomes : Auth_SaveWrite(p, out)
    \/ \E p \in Procs, ok \in BOOLEAN : Auth_SaveChmod(p, ok)
    \/ \E p \in Procs, ok \in BOOLEAN : Clear_Unlink(p, ok)
    \/ \E d \in TickSteps : Tick(d)

\* All four exported functions, on the files of FlowInitStores.
Spec == Init /\ [][Next]_vars

\* The callers that never start the interactive flow.
NextAccessor ==
    \/ \E p \in Procs, o \in Ops \ {"authenticateWithClaude"} :
          MayCall(p) /\ Call(p, o, {})
    \/ \E p \in Procs : GetToken_Load(p)
    \/ \E p \in Procs, r \in Responses("refresh_token") : GetToken_RefreshResponse(p, r)
    \/ \E p \in Procs, out \in SaveOutcomes : GetToken_SaveWrite(p, out)
    \/ \E p \in Procs, ok \in BOOLEAN : GetToken_SaveChmod(p, ok)
    \/ \E p \in Procs, ok \in BOOLEAN : Clear_Unlink(p, ok)
    \/ \E d \in TickSteps : Tick(d)

\* getClaudeAccessToken, isAuthenticated and clearCredentials, on every
\* file of InitStores.
SpecAccessor == InitAccessor /\ [][NextAccessor]_vars

\* The interactive flow alone, started with no credential file or with an
\* expired credential (its accessor call then refreshes and saves), on
\* every string of PastedCodes.
InitFlow ==
    \E f \in {FileMissing, FileValue("object", "A", "R", "num", T0 - 1000)} : InitWith(f)

NextFlow ==
    \/ \E p \in Procs, h \in HookSets :
          MayCall(p) /\ Call(p, "authenticateWithClaude", h)
    \/ \E p \in Procs : GetToken_Load(p)
    \/ \E p \in Procs, r \in Responses("refresh_token") : GetToken_RefreshResponse(p, r)
    \/ \E p \in Procs, out \in SaveOutcomes : GetToken_SaveWrite(p, out)
    \/ \E p \in Procs, ok \in BOOLEAN : GetToken_SaveChmod(p, ok)
    \/ \E p \in Procs, ok \in BOOLEAN : Auth_OpenUrl(p, ok)
    \/ \E p \in Procs, c \in PastedCodes : Auth_Code(p, c)
    \/ \E p \in Procs, r \in Responses("authorization_code") : Auth_ExchangeResponse(p, r)
    \/ \E p \in Procs, out \in SaveOutcomes : Auth_SaveWrite(p, out)
    \/ \E p \in Procs, ok \in BOOLEAN : Auth_SaveChmod(p, ok)

SpecFlow == InitFlow /\ [][NextFlow]_vars

\* Two callers that do not wait for each other.  The store starts absent or
\* complete; the token endpoint answers with a complete body, with a body
\* without refresh_token or with an error status; the browser opens, the
\* user pastes "a#s", chmod and unlink succeed, writeFile succeeds or
\* rejects without touching the file.
InitConc ==
    \E f \in {FileMissing, FileValue("object", "A", "R", "num", T0 - 1000)} : InitWith(f)

ConcResponses(g) ==
    { r \in Responses(g) :
        \/ r.k = "status"
        \/ r.k = "ok" /\ r.body = "object" /\ r.access_token # Undefined
              /\ r.expires_in = 3600 }

NextConc ==
    \/ \E p \in Procs, o \in Ops : Call(p, o, {})
    \/ \E p \in Procs : GetToken_Load(p)
    \/ \E p \in Procs, r \in ConcResponses("refresh_token") : GetToken_RefreshResponse(p, r)
    \/ \E p \in Procs, out \in {"ok", "write_fails"} : GetToken_SaveWrite(p, out)
    \/ \E p \in Procs : GetToken_SaveChmod(p, TRUE)
    \/ \E p \in Procs : Auth_OpenUrl(p, TRUE)
    \/ \E p \in Procs : Auth_Code(p, <<"a", "#", "s">>)
    \/ \E p \in Procs, r \in ConcResponses("authorization_code") : Auth_ExchangeResponse(p, r)
    \/ \E p \in Procs, out \in {"ok", "write_fails"} : Auth_SaveWrite(p, out)
    \/ \E p \in Procs : Auth_SaveChmod(p, TRUE)
    \/ \E p \in Procs : Clear_Unlink(p, TRUE)

SpecConc == InitConc /\ [][NextConc]_vars

\* ------------------------------------------------ writeFile, step by step
\* fs.writeFile opens CREDS_PATH with flag 'w', which creates or truncates
\* the file, and then writes the string from offset 0.  Other invocations
\* run between the two steps, so two saves that overlap are a race on the
\* file; SpecRace follows the steps one by one.

\* Length of a token: tokens are opaque strings whose length is the
\* provider's choice.
TokenLength(t) ==
    CASE t = Undefined -> 0
      [] t = "C-long" -> 2
      [] OTHER -> 1

\* A measure of the length of the bytes in the file (0: empty or no file).
FileLength(f) ==
    IF f.k = "missing" THEN 0
    ELSE TokenLength(f.access_token) + TokenLength(f.refresh_token)
         + (IF f.exk = "absent" THEN 0 ELSE 1)

\* The file after the bytes of c were written at offset 0 through a
\* descriptor opened earlier: c, unless the file has meanwhile become
\* longer than c, which leaves c followed by the tail of the longer content
\* (not valid JSON); an unlinked file stays unlinked.
WriteAtStart(f, c) ==
    CASE f.k = "missing" -> f
      [] FileLength(f) > FileLength(c) -> [f EXCEPT !.k = "badjson"]
      [] OTHER -> c

\* saveCredentials: mkdir settles and writeFile has opened the file, which
\* is now empty.
SaveOpen(p) ==
    /\ pc[p] \in {"gt_writeFile", "au_writeFile"}
    /\ store' = FileOfKind("badjson")
    /\ lastWriter' = p
    /\ pc' = [pc EXCEPT ![p] = IF @ = "gt_writeFile" THEN "gt_writing" ELSE "au_writing"]
    /\ ev' = [ev EXCEPT ![p] = Append(@, "mkdir")]
    /\ UNCHANGED <<now, ticks, calls, provider, runner, prev, op, hooks, creds, tcheck,
                   resp, trecv, newCreds, pkce, authUrl, code, token, reqs, res>>

\* saveCredentials: writeFile has written the string and settles.
SaveFlush(p) ==
    /\ pc[p] \in {"gt_writing", "au_writing"}
    /\ store' = WriteAtStart(store, JSON_stringify(newCreds[p]))
    /\ lastWriter' = p
    /\ pc' = [pc EXCEPT ![p] = IF @ = "gt_writing" THEN "gt_chmod" ELSE "au_chmod"]
    /\ ev' = [ev EXCEPT ![p] = Append(@, "writeFile")]
    /\ UNCHANGED <<now, ticks, calls, provider, runner, prev, op, hooks, creds, tcheck,
                   resp, trecv, newCreds, pkce, authUrl, code, token, reqs, res>>

\* The answers of the token endpoint to the refresh requests of SpecRace:
\* two generations of tokens, of different length, and an error status.
RaceResponses ==
    { Response("ok", "object", "B", "R2", "num", 3600),
      Response("ok", "object", "C-long", "R3", "num", 3600),
      Response("status", "object", Undefined, Undefined, "undefined", 0) }

\* Two callers of getClaudeAccessToken and clearCredentials that do not
\* wait for each other, on an expired credential.
InitRace == InitWith(FileValue("object", "A", "R", "num", T0 - 1000))

\* An invocation of such a caller.
RaceCall(p, o) == calls < MaxRaceCalls /\ Invoke(p, o, {})

NextRace ==
    \/ \E p \in Procs, o \in {"getClaudeAccessToken", "clearCredentials"} : RaceCall(p, o)
    \/ \E p \in Procs : GetToken_Load(p)
    \/ \E p \in Procs, r \in RaceResponses : GetToken_RefreshResponse(p, r)
    \/ \E p \in Procs : SaveOpen(p)
    \/ \E p \in Procs : SaveFlush(p)
    \/ \E p \in Procs : GetToken_SaveChmod(p, TRUE)
    \/ \E p \in Procs : Clear_Unlink(p, TRUE)

SpecRace == InitRace /\ [][NextRace]_vars

\* The tokens of the generations that a rotating endpoint issues, in order.
RotationAccess == <<"B", "C", "D", "E">>
RotationRefresh == <<"R2", "R3", "R4", "R5">>
\* Lifetime in seconds of an access token of SpecRotate: fresh when issued,
\* not fresh one tick later.
ShortLife == 61

\* The n-th success response of the rotating endpoint.
RotationResponse(n) ==
    Response("ok", "object", RotationAccess[n], RotationRefresh[n], "num", ShortLife)

\* The rotating endpoint receives the refresh request of p and checks its
\* refresh token against the one it honours.
Provider_Validate(p) ==
    /\ pc[p] = "refresh"
    /\ provider.verdict[p] = "none"
    /\ provider' = [provider EXCEPT !.verdict[p] =
                       IF reqs[p][Len(reqs[p])].refresh_token = provider.honoured
                       THEN "valid" ELSE "invalid"]
    /\ UNCHANGED <<store, now, ticks, calls, lastWriter, runner, locals>>

\* The rotating endpoint answers the request of p: an accepted request gets
\* the next generation, and from then on only the refresh token of that
\* generation is honoured; a refused request gets an error status.
Rotate_Answer(p) ==
    /\ provider.verdict[p] # "none"
    /\ provider.issued < Len(RotationAccess)
    /\ IF provider.verdict[p] = "valid"
       THEN /\ RefreshAnswered(p, RotationResponse(provider.issued + 1))
            /\ provider' = [provider EXCEPT
                               !.honoured = RotationRefresh[provider.issued + 1],
                               !.issued = @ + 1,
                               !.verdict[p] = "none"]
       ELSE /\ RefreshAnswered(p, Response("status", "object", Undefined, Undefined,
                                           "undefined", 0))
            /\ provider' = [provider EXCEPT !.verdict[p] = "none"]
    /\ UNCHANGED <<store, now, ticks, calls, lastWriter, runner>>

\* Two callers of getClaudeAccessToken that do not wait for each other, and
\* a later call made when both have returned.
RotateCall(p) ==
    /\ calls < MaxRaceCalls
    /\ calls >= 2 => Quiet
    /\ Invoke(p, "getClaudeAccessToken", {})

InitRotate == InitWith(FileValue("object", "A", "R", "num", T0 - 1000))

NextRotate ==
    \/ \E p \in Procs : RotateCall(p)
    \/ \E p \in Procs : GetToken_Load(p)
    \/ \E p \in Procs : Provider_Validate(p)
    \/ \E p \in Procs : Rotate_Answer(p)
    \/ \E p \in Procs : GetToken_SaveWrite(p, "ok")
    \/ \E p \in Procs : GetToken_SaveChmod(p, TRUE)
    \/ \E d \in TickSteps : Tick(d)

SpecRotate == InitRotate /\ [][NextRotate]_vars

\* ------------------------------------------------------ single-task runner
\* main() of evals/webvoyager/test-run.ts.  The fields of runner:
\*   pc            : where main() is
\*   crashAttempts : the counter of line 57
\*   context, agent: the locals of the current attempt, "null" or the state
\*                   of the browser context / agent they refer to
\*   errorMessage  : the kind of message of the caught error
\*   pending       : what the finally block hands over to when it is done
\*   exit          : the exit code of the process, once it has exited
\*   result        : what this run wrote to results/<id>.json
\*   written       : the crashAttempts property of a written error result
\*   launches      : attempts started so far
\*   left          : the context and agent of the previous attempt as they
\*                   were when the current attempt started
\*   afterLoop     : the statement after the while loop was executed
\* What an awaited call of an attempt can throw: a message that the catch
\* block takes for a recoverable crash, any other message, and a value
\* without a message property.
ErrorKinds == {"recoverable", "other", "no_message"}

\* The rejection of the 20-minute timer of line 176.
TimedOut == "timed_out"

isRecoverableCrash(errorMessage) == errorMessage = "recoverable"

\* Lines 47-64 come before the first test of the loop: without a task file
\* the process exits with 1, and a task file that cannot be read or parsed
\* rejects main(), whose handler exits with 1 as well.
Runner_Start(taskFile) ==
    /\ runner.pc = "start"
    /\ runner' = IF taskFile = "ok"
                 THEN [runner EXCEPT !.pc = "while"]
                 ELSE [runner EXCEPT !.pc = "exited", !.exit = "1"]
    /\ UNCHANGED <<store, now, ticks, calls, lastWriter, provider, locals>>

\* while (crashAttempts < MAX_CRASH_RETRIES): an attempt starts with fresh
\* locals, or the loop is left and line 265 exits.
Runner_While ==
    /\ runner.pc = "while"
    /\ runner' = IF runner.crashAttempts < MAX_CRASH_RETRIES
                 THEN [runner EXCEPT !.pc = "launch",
                                     !.left = [context |-> runner.context,
                                               agent |-> runner.agent],
                                     !.context = "null",
                                     !.agent = "null",
                                     !.errorMessage = "none",
                                     !.pending = "none",
                                     !.launches = @ + 1]
                 ELSE [runner EXCEPT !.pc = "exited", !.exit = "1",
                                     !.afterLoop = TRUE]
    /\ UNCHANGED <<store, now, ticks, calls, lastWriter, provider, locals>>

\* chromium.launchPersistentContext settles (line 88).
Runner_Launch(out) ==
    /\ runner.pc = "launch"
    /\ runner' = IF out = "ok"
                 THEN [runner EXCEPT !.pc = "startAgent", !.context = "open"]
                 ELSE [runner EXCEPT !.pc = "catch", !.errorMessage = out]
    /\ UNCHANGED <<store, now, ticks, calls, lastWriter, provider, locals>>

\* The page is obtained and startBrowserAgent settles (lines 96-139).
Runner_StartAgent(out) ==
    /\ runner.pc = "startAgent"
    /\ runner' = IF out = "ok"
                 THEN [runner EXCEPT !.pc = "act", !.agent = "running"]
                 ELSE [runner EXCEPT !.pc = "catch", !.errorMessage = out]
    /\ UNCHANGED <<store, now, ticks, calls, lastWriter, provider, locals>>

\* The race of agent.act with the 20-minute timer settles (lines 172-179).
Runner_Act(out) ==
    /\ runner.pc = "act"
    /\ runner' = IF out = "ok"
                 THEN [runner EXCEPT !.pc = "saveFinal"]
                 ELSE [runner EXCEPT !.pc = "catch", !.errorMessage = out]
    /\ UNCHANGED <<store, now, ticks, calls, lastWriter, provider, locals>>

\* The final result is written and the process exits with 0, or
\* agent.memory.toJSON or writeFileSync throws (lines 184-204).
\* process.exit ends the process there: the finally block does not run.
Runner_SaveFinal(out) ==
    /\ runner.pc = "saveFinal"
    /\ runner' = IF out = "ok"
                 THEN [runner EXCEPT !.pc = "exited", !.exit = "0", !.result = "final"]
                 ELSE [runner EXCEPT !.pc = "catch", !.errorMessage = out]
    /\ UNCHANGED <<store, now, ticks, calls, lastWriter, provider, locals>>

\* A catch block that retries every error that has a message, however many
\* retries were made.
Runner_Catch_alwaysRetry ==
    /\ runner.pc = "catch"
    /\ runner' =
          IF runner.errorMessage = "no_message"
          THEN [runner EXCEPT !.pc = "finally_stop", !.pending = "throw"]
          ELSE [runner EXCEPT !.pc = "finally_stop",
                              !.crashAttempts = @ + 1,
                              !.pending = "continue"]
    /\ UNCHANGED <<store, now, ticks, calls, lastWriter, provider, locals>>

\* The catch block up to its decision (lines 206-223).  A thrown value
\* without a message makes errorMessage.includes throw out of the catch
\* block; a recoverable crash with retries left counts the retry and, after
\* the delay, continues, which runs the finally block first.
Runner_Catch ==
    /\ runner.pc = "catch"
    /\ runner' =
          CASE runner.errorMessage = "no_message" ->
                  [runner EXCEPT !.pc = "finally_stop", !.pending = "throw"]
            [] /\ runner.errorMessage # "no_message"
               /\ isRecoverableCrash(runner.errorMessage)
               /\ runner.crashAttempts < MAX_CRASH_RETRIES - 1 ->
                  [runner EXCEPT !.pc = "finally_stop",
                                 !.crashAttempts = @ + 1,
                                 !.pending = "continue"]
            [] OTHER ->
                  [runner EXCEPT !.pc = "saveError"]
    /\ UNCHANGED <<store, now, ticks, calls, lastWriter, provider, locals>>

\* The error result is written and the process exits with 1 without
\* running the finally block, or agent.memory.toJSON or writeFileSync
\* throws out of the catch block (lines 226-247).
Runner_SaveError(ok) ==
    /\ runner.pc = "saveError"
    /\ runner' = IF ok
                 THEN [runner EXCEPT !.pc = "exited", !.exit = "1",
                                     !.result = "error",
                                     !.written = runner.crashAttempts + 1]
                 ELSE [runner EXCEPT !.pc = "finally_stop", !.pending = "throw"]
    /\ UNCHANGED <<store, now, ticks, calls, lastWriter, provider, locals>>

\* finally: agent.stop() is awaited when there is an agent; its rejection
\* is logged and dropped (lines 250-254).
Runner_FinallyStop(ok) ==
    /\ runner.pc = "finally_stop"
    /\ runner' = [runner EXCEPT
                    !.pc = "finally_close",
                    !.agent = CASE @ = "null" -> "null"
                                [] @ # "null" /\ ok -> "stopped"
                                [] OTHER -> "stop_failed"]
    /\ UNCHANGED <<store, now, ticks, calls, lastWriter, provider, locals>>

\* finally: context.close() is awaited when there is a context; its
\* rejection is logged and dropped (lines 256-260).  Then the continue
\* goes back to the test of the loop, or the pending exception rejects
\* main() and the handler of line 268 exits with 1.
Runner_FinallyClose(ok) ==
    /\ runner.pc = "finally_close"
    /\ LET c == CASE runner.context = "null" -> "null"
                  [] runner.context # "null" /\ ok -> "closed"
                  [] OTHER -> "close_failed"
       IN  runner' = IF runner.pending = "continue"
                     THEN [runner EXCEPT !.pc = "while", !.context = c]
                     ELSE [runner EXCEPT !.pc = "exited", !.exit = "1", !.context = c]
    /\ UNCHANGED <<store, now, ticks, calls, lastWriter, provider, locals>>

InitRunner == InitWith(FileMissing)

NextRunner ==
    \/ \E t \in {"ok", "missing", "unreadable"} : Runner_Start(t)
    \/ Runner_While
    \/ \E out \in {"ok"} \cup ErrorKinds : Runner_Launch(out)
    \/ \E out \in {"ok"} \cup ErrorKinds : Runner_StartAgent(out)
    \/ \E out \in {"ok", TimedOut} \cup ErrorKinds : Runner_Act(out)
    \/ \E out \in {"ok"} \cup ErrorKinds : Runner_SaveFinal(out)
    \/ Runner_Catch
    \/ \E ok \in BOOLEAN : Runner_SaveError(ok)
    \/ \E ok \in BOOLEAN : Runner_FinallyStop(ok)
    \/ \E ok \in BOOLEAN : Runner_FinallyClose(ok)

SpecRunner == InitRunner /\ [][NextRunner]_vars

\* Every call that main() awaits settles, and its timers fire.
SpecRunnerFair == SpecRunner /\ WF_vars(NextRunner)

\* ============================================================ properties
\* Event e is in the log of invocation p.
InEv(p, e) == \E i \in 1..Len(ev[p]) : ev[p][i] = e

\* The functions that run the accessor.
Accessors == {"getClaudeAccessToken", "isAuthenticated", "authenticateWithClaude"}

\* The call of getClaudeAccessToken made by invocation p has returned and
\* the invocation ended with it (a flow that short-circuited, for
\* authenticateWithClaude).
AccessorReturned(p) ==
    /\ op[p] \in Accessors
    /\ token[p].k # "pending"
    /\ op[p] = "authenticateWithClaude" => pc[p] = "done" /\ token[p].k = "string"

\* Invocation p has loaded a truthy value and is past the validity check.
PastCheck(p) == op[p] \in Accessors /\ creds[p].k \in {"truthy", "object"}

\* The loaded credential expired strictly more than 60000 ms after the
\* time of the check.
FreshAtCheck(p) ==
    /\ PastCheck(p)
    /\ creds[p].exk = "num"
    /\ creds[p].expires_at > tcheck[p] + 60000

\* The value a function returns for property value x.
ValueOf(x) == IF x = Undefined THEN Ret("undefined", "") ELSE Ret("string", x)

\* Invocation p has sent no refresh request.
NoRefreshRequest(p) == \A i \in 1..Len(reqs[p]) : reqs[p][i].grant_type # "refresh_token"

\* Invocation p has not touched the credential file.
NoFileEvent(p) == ~InEv(p, "mkdir") /\ ~InEv(p, "writeFile") /\ ~InEv(p, "unlink")

\* The token endpoint answered with a success status and a JSON object.
OkObject(r) == r.k = "ok" /\ r.body = "object"

\* The request failed: error status, transport error or undecodable body.
FailedResponse(r) ==
    r.k \in {"status", "transport", "undecodable"} \/ (r.k = "ok" /\ r.body = "null")

\* The file holds the credential built from response r received at time t.
StoreHoldsGeneration(r, t) ==
    /\ store.k = "object"
    /\ store.access_token = r.access_token
    /\ store.refresh_token = r.refresh_token
    /\ r.eik = "num" => store.exk = "num" /\ store.expires_at = t + r.expires_in * 1000

\* C1: when the loaded credential expires more than 60000 ms after the time
\* of the check, the accessor returns its access_token, has sent no request
\* and has not touched the file, which still holds the same credential;
\* this is so for every call, the first and the later ones.
C1_FreshReturnsCached ==
    \A p \in Procs :
        AccessorReturned(p) /\ FreshAtCheck(p) =>
            /\ token[p] = ValueOf(creds[p].access_token)
            /\ reqs[p] = <<>>
            /\ NoFileEvent(p)
            /\ loadCredentials(store) = creds[p]
            /\ op[p] = "getClaudeAccessToken" => res[p] = token[p]

\* A second successive call on a fresh credential has returned the token
\* the first call returned, without any request.
C1_Witness ==
    \E p \in Procs :
        /\ op[p] = "getClaudeAccessToken" /\ pc[p] = "done"
        /\ prev[p].op = "getClaudeAccessToken"
        /\ prev[p].res = Ret("string", "A")
        /\ res[p] = Ret("string", "A")
        /\ FreshAtCheck(p)
        /\ reqs[p] = <<>>

\* C2: for every loaded credential and every time of the check, no refresh
\* request is sent and the cached token is what the accessor returns if and
\* only if expires_at is strictly more than 60000 ms after the check;
\* otherwise the first request of the invocation is the refresh.
C2_ExpiryBoundary ==
    \A p \in Procs :
        PastCheck(p) /\ pc[p] # "readFile" =>
            /\ FreshAtCheck(p) <=> NoRefreshRequest(p)
            /\ FreshAtCheck(p) => token[p] = ValueOf(creds[p].access_token)
            /\ ~FreshAtCheck(p) =>
                  /\ Len(reqs[p]) >= 1
                  /\ reqs[p][1].grant_type = "refresh_token"
                  /\ reqs[p][1].refresh_token = creds[p].refresh_token

\* A credential that expires exactly 60000 ms after the check has
\* triggered a refresh.
C2_Witness ==
    \E p \in Procs :
        /\ PastCheck(p)
        /\ creds[p].exk = "num"
        /\ creds[p].expires_at = tcheck[p] + 60000
        /\ Len(reqs[p]) = 1
        /\ reqs[p][1].grant_type = "refresh_token"

\* The refresh of invocation p succeeded: the credential was not fresh and
\* the endpoint answered the refresh request with an object.
RefreshSucceeded(p) ==
    /\ AccessorReturned(p)
    /\ PastCheck(p)
    /\ ~FreshAtCheck(p)
    /\ OkObject(resp[p])

\* C3 as stated: when the credential is not fresh and the refresh request
\* succeeds, the accessor returns the access_token of the response and the
\* file holds the new generation.
C3_Original ==
    \A p \in Procs :
        RefreshSucceeded(p) =>
            /\ token[p] = ValueOf(resp[p].access_token)
            /\ StoreHoldsGeneration(resp[p], trecv[p])

\* C3 (amended): when the credential is not fresh, the refresh request
\* succeeds and mkdir and writeFile of the save succeed, the accessor
\* returns the access_token of the response, and the file, last written by
\* this invocation, holds the access_token and the refresh_token of the
\* response and expires_at = time of receipt + expires_in * 1000.
C3_RefreshPersistsNewGeneration ==
    \A p \in Procs :
        RefreshSucceeded(p) /\ InEv(p, "chmod") =>
            /\ token[p] = ValueOf(resp[p].access_token)
            /\ lastWriter = p
            /\ StoreHoldsGeneration(resp[p], trecv[p])

\* An expired credential with refresh token R was refreshed one clock step
\* after the check; B was returned and the file holds R2.
C3_Witness ==
    \E p \in Procs :
        /\ op[p] = "getClaudeAccessToken" /\ pc[p] = "done"
        /\ creds[p].refresh_token = "R"
        /\ res[p] = Ret("string", "B")
        /\ store.refresh_token = "R2"
        /\ trecv[p] > tcheck[p]
        /\ store.expires_at = trecv[p] + 3600 * 1000

\* C4: when the credential is not fresh and the refresh request fails, the
\* accessor returns null, has not touched the file, and the file still
\* holds the credential that was loaded.
C4_RefreshFailureKeepsFile ==
    \A p \in Procs :
        /\ AccessorReturned(p)
        /\ PastCheck(p)
        /\ ~FreshAtCheck(p)
        /\ FailedResponse(resp[p])
        => /\ token[p] = RetNull
           /\ NoFileEvent(p)
           /\ store.k \in {"truthy", "object"}
           /\ loadCredentials(store) = creds[p]
           /\ op[p] = "getClaudeAccessToken" => res[p] = RetNull

\* The endpoint answered the refresh of an expired credential with an error
\* status; null was returned and the file still holds A and R.
C4_Witness ==
    \E p \in Procs :
        /\ op[p] = "getClaudeAccessToken" /\ pc[p] = "done"
        /\ resp[p].k = "status"
        /\ res[p] = RetNull
        /\ store.k = "object" /\ store.access_token = "A" /\ store.refresh_token = "R"

\* C5: no invocation of the accessor rejects: getClaudeAccessToken and
\* isAuthenticated end with a value whatever the file holds and whatever
\* the refresh and the save do, and authenticateWithClaude can only reject
\* after its accessor call has returned and the code was obtained.
C5_AccessorNeverThrows ==
    \A p \in Procs :
        /\ op[p] \in {"getClaudeAccessToken", "isAuthenticated"} =>
              /\ res[p].k # "throw"
              /\ pc[p] = "done" =>
                    res[p].k \in {"null", "string", "undefined", "true", "false"}
        /\ op[p] = "authenticateWithClaude" /\ res[p].k = "throw" =>
              token[p].k # "pending" /\ InEv(p, "code")

\* A refresh succeeded, writeFile of the save failed, and the accessor
\* returned null.
C5_Witness ==
    \E p \in Procs :
        /\ op[p] = "getClaudeAccessToken" /\ pc[p] = "done"
        /\ OkObject(resp[p])
        /\ InEv(p, "writeFile") /\ ~InEv(p, "chmod")
        /\ res[p] = RetNull

\* The file parses as JSON but lacks one of the three properties.
PartialFile(f) ==
    /\ f.k \in {"truthy", "object"}
    /\ f.access_token = Undefined \/ f.refresh_token = Undefined \/ f.exk # "num"

\* C6 as stated: while the file is a partial credential file that the
\* invocation has not written, the load has yielded null, no request has
\* been sent and nothing but null is returned.
C6_PartialTreatedAsAbsent ==
    \A p \in Procs :
        /\ op[p] \in Accessors
        /\ PartialFile(store)
        /\ NoFileEvent(p)
        => /\ creds[p] = JsNull
           /\ reqs[p] = <<>>
           /\ token[p].k \in {"pending", "null"}

\* C7: when the file is missing, the accessor returns null, has sent no
\* request, leaves the file missing, and the exported accessor and
\* isAuthenticated end without a step of the interactive flow.
C7_NoCredentialReturnsNull ==
    \A p \in Procs :
        /\ op[p] \in Accessors
        /\ pc[p] \notin {"idle", "readFile"}
        /\ op[p] = "authenticateWithClaude" => pc[p] = "openUrl"
        /\ store.k = "missing"
        => /\ token[p] = RetNull
           /\ creds[p] = JsNull
           /\ reqs[p] = <<>>
           /\ NoFileEvent(p)
           /\ op[p] # "authenticateWithClaude" => pc[p] = "done" /\ ev[p] = <<>>
           /\ op[p] = "getClaudeAccessToken" => res[p] = RetNull

\* The exported accessor has returned null and the file is missing.
C7_Witness ==
    \E p \in Procs :
        /\ op[p] = "getClaudeAccessToken" /\ pc[p] = "done"
        /\ store.k = "missing"
        /\ res[p] = RetNull
        /\ ev[p] = <<>>

\* The steps of the interactive flow after the accessor call.
FlowEvents ==
    {"generatePKCE", "exec", "openUrl:ok", "openUrl:failed", "onAuthUrlReady",
     "console.log", "promptForCode", "stdin", "code", "onSuccess"}

\* Number of events e in the log of invocation p.
CountEv(p, e) == Cardinality({i \in 1..Len(ev[p]) : ev[p][i] = e})

\* C8: when the accessor call of authenticateWithClaude yields a token, the
\* flow has ended with that token and has done nothing else: no PKCE pair,
\* no browser command, no hook, no code, no authorization_code request and
\* no write beyond the one of the accessor call.
C8_AuthShortCircuit ==
    \A p \in Procs :
        op[p] = "authenticateWithClaude" /\ token[p].k = "string" =>
            /\ pc[p] = "done"
            /\ res[p] = token[p]
            /\ pkce[p] = NoPKCE /\ authUrl[p] = NoURL /\ code[p] = <<>>
            /\ \A i \in 1..Len(ev[p]) : ev[p][i] \notin FlowEvents
            /\ \A i \in 1..Len(reqs[p]) : reqs[p][i].grant_type # "authorization_code"
            /\ Len(reqs[p]) <= 1
            /\ CountEv(p, "writeFile") <= 1

\* A flow called with all hooks on a fresh credential has returned the
\* cached token with an empty event log.
C8_Witness ==
    \E p \in Procs :
        /\ op[p] = "authenticateWithClaude" /\ pc[p] = "done"
        /\ hooks[p] = HookNames
        /\ FreshAtCheck(p)
        /\ res[p] = Ret("string", "A")
        /\ ev[p] = <<>>

\* The exchange request of flow p has been answered.
ExchangeAnswered(p) ==
    /\ op[p] = "authenticateWithClaude"
    /\ InEv(p, "code")
    /\ pc[p] \in {"au_writeFile", "au_chmod", "done"}

\* Event e occurs in the log of p after the code was obtained.
AfterCode(p, e) ==
    \E i, j \in 1..Len(ev[p]) : i < j /\ ev[p][i] = "code" /\ ev[p][j] = e

\* C9: when the code exchange fails, the flow has rejected: no token is
\* returned, onSuccess is not invoked, the save is not started, and unless
\* the accessor call wrote it the file holds what was loaded.
C9_ExchangeFailurePropagates ==
    \A p \in Procs :
        ExchangeAnswered(p) /\ FailedResponse(resp[p]) =>
            /\ pc[p] = "done"
            /\ res[p] = RetThrow
            /\ ~InEv(p, "onSuccess")
            /\ ~AfterCode(p, "mkdir") /\ ~AfterCode(p, "writeFile")
            /\ NoFileEvent(p) => loadCredentials(store) = creds[p]

\* A flow with all hooks has rejected on an error status of the exchange.
C9_Witness ==
    \E p \in Procs :
        /\ op[p] = "authenticateWithClaude" /\ pc[p] = "done"
        /\ hooks[p] = HookNames
        /\ InEv(p, "code")
        /\ resp[p].k = "status"
        /\ res[p] = RetThrow

\* C10 as stated: when the code exchange succeeds, the flow has persisted
\* the credential built from the response and returns its access_token.
C10_Original ==
    \A p \in Procs :
        ExchangeAnswered(p) /\ pc[p] = "done" /\ OkObject(resp[p]) =>
            /\ res[p] = ValueOf(resp[p].access_token)
            /\ StoreHoldsGeneration(resp[p], trecv[p])

\* C10 (amended): when there is no usable cached token, the code exchange
\* succeeds and mkdir and writeFile of the save succeed, the flow returns
\* the access_token of the response and the file, last written by this
\* flow, holds the credential built from the response; and an accessor call
\* that follows a flow which returned a token, and finds the credential
\* more than 60000 ms from expiry, returns the same token with no request.
C10_ExchangePersistsAndReturns ==
    \A p \in Procs :
        /\ ExchangeAnswered(p) /\ pc[p] = "done" /\ OkObject(resp[p])
              /\ AfterCode(p, "chmod") =>
              /\ ~IsTruthyToken(token[p])
              /\ res[p] = ValueOf(resp[p].access_token)
              /\ lastWriter = p
              /\ StoreHoldsGeneration(resp[p], trecv[p])
        /\ op[p] = "getClaudeAccessToken" /\ pc[p] = "done"
              /\ prev[p].op = "authenticateWithClaude" /\ prev[p].res.k = "string"
              /\ FreshAtCheck(p) =>
              /\ res[p] = prev[p].res
              /\ reqs[p] = <<>>

\* An accessor call after a flow that exchanged a code for X has returned
\* X with no request.
C10_Witness ==
    \E p \in Procs :
        /\ op[p] = "getClaudeAccessToken" /\ pc[p] = "done"
        /\ prev[p].op = "authenticateWithClaude"
        /\ prev[p].res = Ret("string", "X")
        /\ store.access_token = "X" /\ store.refresh_token = "RX"
        /\ res[p] = Ret("string", "X")
        /\ reqs[p] = <<>>

\* Position of the first sep in s, 0 if there is none.
FirstIndexOf(s, sep) ==
    IF \E i \in 1..Len(s) : s[i] = sep
    THEN CHOOSE i \in 1..Len(s) : s[i] = sep /\ \A j \in 1..(i - 1) : s[j] # sep
    ELSE 0

\* The last request invocation p sent.
LastRequest(p) == reqs[p][Len(reqs[p])]

\* C11 as stated: the exchange request carries as code the part of the
\* pasted string before its first '#' and as state the whole part after
\* that '#', unchanged, and as code_verifier the verifier of the caller.
C11_SplitAtFirstDelimiter ==
    \A p \in Procs :
        op[p] = "authenticateWithClaude" /\ InEv(p, "code") =>
            LET r == LastRequest(p)
                i == FirstIndexOf(code[p], "#")
            IN  /\ r.grant_type = "authorization_code"
                /\ r.code_verifier = pkce[p].verifier
                /\ i > 0 =>
                      /\ r.code = SubSeq(code[p], 1, i - 1)
                      /\ r.has_state
                      /\ r.state = SubSeq(code[p], i + 1, Len(code[p]))

\* Values a and b agree in access_token, refresh_token and expires_at.
SameFields(a, b) ==
    /\ a.access_token = b.access_token
    /\ a.refresh_token = b.refresh_token
    /\ a.exk = b.exk
    /\ a.expires_at = b.expires_at

\* Invocation p has written the file and no one has changed it since.
JustSaved(p) == pc[p] \in {"gt_chmod", "au_chmod"} /\ lastWriter = p

\* C12 as stated: once the Credentials object built by refreshAccessToken
\* or exchangeCodeForTokens has been written by saveCredentials, what
\* loadCredentials yields equals it in access_token, refresh_token and
\* expires_at.
C12_SaveLoadRoundTrip ==
    \A p \in Procs :
        JustSaved(p) => SameFields(loadCredentials(store), newCreds[p])

\* C13 as stated: clearCredentials ends without an error whether or not
\* the file exists, and when it has ended (the caller runs nothing else)
\* the file is missing: the call that follows it returns null from
\* getClaudeAccessToken and false from isAuthenticated.
C13_ClearLeavesStoreAbsent ==
    \A p \in Procs :
        /\ op[p] = "clearCredentials" /\ pc[p] = "done" =>
              /\ res[p] = RetVoid
              /\ store.k = "missing"
        /\ prev[p].op = "clearCredentials" /\ pc[p] = "done" =>
              /\ op[p] = "getClaudeAccessToken" => res[p] = RetNull
              /\ op[p] = "isAuthenticated" => res[p] = Ret("false", "")

\* The browser command of flow p has ended.
OpenUrlEnded(p) ==
    op[p] = "authenticateWithClaude" /\ (InEv(p, "openUrl:ok") \/ InEv(p, "openUrl:failed"))

\* Flow p has sent an authorization_code request.
ExchangeAttempted(p) ==
    \E i \in 1..Len(reqs[p]) : reqs[p][i].grant_type = "authorization_code"

\* C14: whether the browser command succeeds or fails, the flow surfaces
\* the URL built from its PKCE pair (through onAuthUrlReady if supplied,
\* on the console otherwise), asks for the code and, once it has the code,
\* sends the exchange request; it rejects only after that request was
\* sent, on a failed exchange or a failed save.
C14_OpenFailureNonFatal ==
    \A p \in Procs :
        OpenUrlEnded(p) =>
            /\ authUrl[p].code_challenge = pkce[p].challenge
            /\ authUrl[p].state = pkce[p].verifier
            /\ IF "onAuthUrlReady" \in hooks[p]
               THEN CountEv(p, "onAuthUrlReady") = 1 /\ ~InEv(p, "console.log")
               ELSE CountEv(p, "console.log") = 1 /\ ~InEv(p, "onAuthUrlReady")
            /\ InEv(p, "promptForCode") \/ InEv(p, "stdin")
            /\ pc[p] = "prompt" \/ (InEv(p, "code") /\ ExchangeAttempted(p))
            /\ res[p].k = "throw" =>
                  /\ ExchangeAttempted(p)
                  /\ FailedResponse(resp[p]) \/ AfterCode(p, "mkdir")

\* A browser that did not open: the URL went to onAuthUrlReady, the code
\* was exchanged and the flow returned the token.
C14_Witness ==
    \E p \in Procs :
        /\ op[p] = "authenticateWithClaude" /\ pc[p] = "done"
        /\ InEv(p, "openUrl:failed")
        /\ InEv(p, "onAuthUrlReady")
        /\ ExchangeAttempted(p)
        /\ res[p] = Ret("string", "X")

\* Event e is in the log of p before the interactive part of the flow,
\* i.e. it belongs to the accessor call.
InAccessorCall(p, e) ==
    \E i \in 1..Len(ev[p]) :
        ev[p][i] = e /\ \A j \in 1..i : ev[p][j] # "generatePKCE"

\* C15: when mkdir or writeFile of saveCredentials fails, the save raises:
\* chmod is not attempted, the accessor call gets the error in its catch
\* (and yields null) and the flow rejects without onSuccess; when
\* writeFile succeeds and only chmod fails, the save completes: the caller
\* goes on to return the new access token and the file, last written by
\* this invocation, holds the credential built from the response, which is
\* what loadCredentials yields.
C15_SaveToleratesOnlyChmod ==
    \A p \in Procs :
        /\ InAccessorCall(p, "mkdir") /\ ~InAccessorCall(p, "chmod")
              /\ pc[p] # "gt_chmod" =>
              token[p] = RetNull
        /\ AfterCode(p, "mkdir") /\ ~AfterCode(p, "chmod") /\ pc[p] # "au_chmod" =>
              /\ pc[p] = "done"
              /\ res[p] = RetThrow
              /\ ~InEv(p, "onSuccess")
        /\ InAccessorCall(p, "chmod:failed") =>
              /\ token[p].k \in {"string", "undefined"}
              /\ IsTruthyToken(token[p]) =>
                    /\ pc[p] = "done" /\ res[p] = ValueOf(resp[p].access_token)
                    /\ lastWriter = p
                    /\ StoreHoldsGeneration(resp[p], trecv[p])
                    /\ loadCredentials(store).access_token = resp[p].access_token
                    /\ loadCredentials(store).refresh_token = resp[p].refresh_token
        /\ AfterCode(p, "chmod:failed") =>
              /\ pc[p] = "done" /\ res[p] = ValueOf(resp[p].access_token)
              /\ "onSuccess" \in hooks[p] => InEv(p, "onSuccess")
              /\ lastWriter = p
              /\ StoreHoldsGeneration(resp[p], trecv[p])
              /\ loadCredentials(store).access_token = resp[p].access_token
              /\ loadCredentials(store).refresh_token = resp[p].refresh_token

\* The save of a flow wrote the file, its chmod failed, and the flow
\* returned the token X that the file holds.
C15_Witness ==
    \E p \in Procs :
        /\ op[p] = "authenticateWithClaude" /\ pc[p] = "done"
        /\ AfterCode(p, "chmod:failed")
        /\ res[p] = Ret("string", "X")
        /\ loadCredentials(store).access_token = "X"
        /\ loadCredentials(store).refresh_token = "RX"

\* C16 as stated: getClaudeAccessToken returns a string or null and
\* nothing else, and isAuthenticated returns true exactly when its accessor
\* call yields a string.
C16_AuthenticatedIffStringToken ==
    \A p \in Procs :
        /\ op[p] = "getClaudeAccessToken" /\ pc[p] = "done" =>
              res[p].k \in {"string", "null"}
        /\ op[p] = "isAuthenticated" /\ pc[p] = "done" =>
              /\ token[p].k \in {"string", "null"}
              /\ res[p].k \in {"true", "false"}
              /\ res[p].k = "true" <=> token[p].k = "string"

\* Invocation p has generated its PKCE pair.
HasPKCE(p) == op[p] = "authenticateWithClaude" /\ InEv(p, "generatePKCE")

\* The pair of p is a verifier with its SHA-256 challenge, and the URL of p
\* carries the challenge as code_challenge (method S256) and the verifier
\* as state.
PairAndURL(p) ==
    /\ pkce[p].verifier \in Verifiers
    /\ pkce[p].challenge = <<"S256", pkce[p].verifier>>
    /\ authUrl[p].code_challenge = pkce[p].challenge
    /\ authUrl[p].code_challenge_method = "S256"
    /\ authUrl[p].state = pkce[p].verifier

C18_StoreAbsentOrComplete ==
    \/ store.k = "missing"
    \/ /\ store.k = "object"
       /\ store.access_token # Undefined
       /\ store.refresh_token # Undefined
       /\ store.exk = "num"

\* C19: every authorization_code request of a flow carries as
\* code_verifier the verifier that this flow generated, the one whose
\* challenge and state are in the URL this flow surfaced; when another
\* flow has generated a different verifier, that one is not what is sent.
C19_VerifierBinding ==
    \A p \in Procs :
        op[p] = "authenticateWithClaude" =>
            \A i \in 1..Len(reqs[p]) :
                reqs[p][i].grant_type = "authorization_code" =>
                    /\ HasPKCE(p)
                    /\ reqs[p][i].code_verifier = pkce[p].verifier
                    /\ authUrl[p].state = reqs[p][i].code_verifier
                    /\ authUrl[p].code_challenge = <<"S256", reqs[p][i].code_verifier>>
                    /\ \A q \in Procs \ {p} :
                          HasPKCE(q) /\ pkce[q].verifier # pkce[p].verifier =>
                              reqs[p][i].code_verifier # pkce[q].verifier

\* Two flows wait for the answer to their exchange requests at the same
\* time; one has sent v1 and the other v2, each its own.
C19_Witness ==
    /\ pc[1] = "exchange" /\ pc[2] = "exchange"
    /\ pkce[1].verifier = "v1" /\ pkce[2].verifier = "v2"
    /\ LastRequest(1).code_verifier = "v1"
    /\ LastRequest(2).code_verifier = "v2"

\* Number of requests of grant type g that invocation p has sent.
CountReq(p, g) == Cardinality({i \in 1..Len(reqs[p]) : reqs[p][i].grant_type = g})

\* C20: an invocation of getClaudeAccessToken (or of isAuthenticated, which
\* runs it) sends at most one request, a refresh; an invocation of
\* authenticateWithClaude sends at most one refresh request and at most
\* one authorization_code request; clearCredentials sends none.  Every
\* fetch is one of these requests, so a failed request is not sent again.
C20_NoRetry ==
    \A p \in Procs :
        /\ CountEv(p, "fetch") = Len(reqs[p])
        /\ CountReq(p, "refresh_token") <= 1
        /\ CountReq(p, "authorization_code") <= 1
        /\ CountReq(p, "refresh_token") + CountReq(p, "authorization_code") = Len(reqs[p])
        /\ op[p] \in {"getClaudeAccessToken", "isAuthenticated"} =>
              CountReq(p, "authorization_code") = 0
        /\ op[p] \in {"clearCredentials", "none"} => reqs[p] = <<>>

\* A flow whose refresh failed and whose exchange was answered with an
\* error status has rejected after one request of each kind.
C20_Witness ==
    \E p \in Procs :
        /\ op[p] = "authenticateWithClaude" /\ pc[p] = "done"
        /\ token[p] = RetNull
        /\ ~InAccessorCall(p, "mkdir")
        /\ resp[p].k = "status"
        /\ res[p] = RetThrow
        /\ Len(reqs[p]) = 2
        /\ reqs[p][1].grant_type = "refresh_token"
        /\ reqs[p][2].grant_type = "authorization_code"

\* Every e2 in the log of p has an e1 somewhere before it.
Precedes(p, e1, e2) ==
    \A j \in 1..Len(ev[p]) :
        ev[p][j] = e2 => \E i \in 1..(j - 1) : ev[p][i] = e1

\* C21: in an invocation of getClaudeAccessToken (or of isAuthenticated,
\* which runs it) nothing is sent or written before the load has settled;
\* a refresh request is sent only after the load found a credential that
\* is not fresh; the save starts only after the refresh request was
\* answered with a success; and a token of a refresh is returned only
\* after mkdir, writeFile and chmod of the save, when the file, last
\* written by this invocation, holds the credential with that token.
C21_AccessorStepOrder ==
    \A p \in Procs :
        op[p] \in {"getClaudeAccessToken", "isAuthenticated"} =>
            /\ pc[p] = "readFile" =>
                  reqs[p] = <<>> /\ ev[p] = <<>> /\ token[p] = Pending
            /\ reqs[p] # <<>> => PastCheck(p) /\ ~FreshAtCheck(p)
            /\ InEv(p, "fetch") <=> reqs[p] # <<>>
            /\ InEv(p, "mkdir") => OkObject(resp[p])
            /\ Precedes(p, "fetch", "mkdir")
            /\ Precedes(p, "mkdir", "writeFile")
            /\ Precedes(p, "writeFile", "chmod")
            /\ reqs[p] # <<>> /\ token[p].k \notin {"pending", "null"} =>
                  /\ InEv(p, "chmod")
                  /\ token[p] = ValueOf(resp[p].access_token)
                  /\ lastWriter = p
                  /\ StoreHoldsGeneration(resp[p], trecv[p])

\* The accessor has returned B after fetch, mkdir, writeFile and chmod, in
\* this order, and the file holds B.
C21_Witness ==
    \E p \in Procs :
        /\ op[p] = "getClaudeAccessToken" /\ pc[p] = "done"
        /\ ev[p] = <<"fetch", "mkdir", "writeFile", "chmod">>
        /\ res[p] = Ret("string", "B")
        /\ store.access_token = "B"

\* Every event of set B in the log of p has an event of set A before it.
PrecededBy(p, A, B) ==
    \A j \in 1..Len(ev[p]) :
        ev[p][j] \in B => \E i \in 1..(j - 1) : ev[p][i] \in A

\* Events of set B in the log of p that come after generatePKCE, i.e. that
\* belong to the interactive part, have an event of set A before them.
InFlowPrecededBy(p, A, B) ==
    \A j \in 1..Len(ev[p]) :
        ev[p][j] \in B /\ (\E g \in 1..(j - 1) : ev[p][g] = "generatePKCE") =>
            \E i \in 1..(j - 1) : ev[p][i] \in A

\* The order of the interactive part that both readings of C22 share: the
\* browser command ends before the URL is surfaced, the URL is surfaced
\* before the prompt is invoked, the code comes from the prompt, no
\* exchange request is sent and the flow is not over before the code is
\* there, the save of the flow comes before onSuccess, and onSuccess is
\* invoked at most once and before the token is returned.
FlowOrder(p) ==
    /\ PrecededBy(p, {"openUrl:ok", "openUrl:failed"}, {"onAuthUrlReady", "console.log"})
    /\ PrecededBy(p, {"onAuthUrlReady", "console.log"}, {"promptForCode", "stdin"})
    /\ PrecededBy(p, {"promptForCode", "stdin"}, {"code"})
    /\ ~InEv(p, "code") =>
          /\ ~ExchangeAttempted(p)
          /\ pc[p] # "done" /\ res[p] = Pending
    /\ InFlowPrecededBy(p, {"code"}, {"fetch"})
    /\ CountEv(p, "onSuccess") <= 1
    /\ \A j \in 1..Len(ev[p]) :
          ev[p][j] = "onSuccess" =>
              \E c, w \in 1..(j - 1) :
                  c < w /\ ev[p][c] = "code" /\ ev[p][w] = "writeFile"
    /\ InEv(p, "onSuccess") => lastWriter = p /\ StoreHoldsGeneration(resp[p], trecv[p])
    /\ res[p].k \in {"string", "undefined"} =>
          (InEv(p, "onSuccess") <=> "onSuccess" \in hooks[p])

DuplicateRefresh(p, q) ==
    /\ p # q
    /\ \A x \in {p, q} :
          /\ op[x] = "getClaudeAccessToken" /\ pc[x] = "done"
          /\ PastCheck(x) /\ ~FreshAtCheck(x)
          /\ OkObject(resp[x])
          /\ InEv(x, "chmod")
    /\ creds[p] = creds[q]
    /\ prev[p].op = "none" /\ prev[q].op = "none"

\* The file holds exactly the credential built from response r at time t.
StoreIsGeneration(r, t) ==
    /\ store.k = "object"
    /\ store.access_token = r.access_token
    /\ store.refresh_token = r.refresh_token
    /\ store.exk = "num" /\ store.expires_at = t + r.expires_in * 1000

\* C23 as stated: after a duplicate refresh the file holds, whole, the
\* credential of one of the two refreshes, and each invocation has returned
\* the access token of its own response.
C23_DuplicateRefreshBenign ==
    \A p, q \in Procs :
        DuplicateRefresh(p, q) =>
            /\ StoreIsGeneration(resp[p], trecv[p]) \/ StoreIsGeneration(resp[q], trecv[q])
            /\ res[p] = ValueOf(resp[p].access_token)
            /\ res[q] = ValueOf(resp[q].access_token)

\* C25 as stated: logout is final.  No interactive flow runs in SpecRace, so
\* an invocation of getClaudeAccessToken made by a caller whose previous
\* call, clearCredentials, has completed returns null, whatever another
\* caller's refresh, started before the clear, was doing in the meantime.
C25_LogoutFinal ==
    \A p \in Procs :
        (/\ op[p] = "getClaudeAccessToken" /\ pc[p] = "done"
         /\ prev[p].op = "clearCredentials" /\ prev[p].res = RetVoid)
            => res[p] = RetNull

\* C26 as stated: when the refresh succeeded and mkdir or writeFile of the
\* save rejected, getClaudeAccessToken has returned null and the file still
\* holds the credential that was loaded, with its refresh token; when the
\* code exchange succeeded and the save rejected, the flow has rejected and
\* onSuccess was not invoked.
C26_PersistFailure ==
    \A p \in Procs :
        /\ (/\ op[p] = "getClaudeAccessToken" /\ pc[p] = "done"
            /\ RefreshSucceeded(p)
            /\ InEv(p, "mkdir") /\ ~InEv(p, "chmod"))
              => /\ res[p] = RetNull
                 /\ store.k = "object"
                 /\ store.access_token = creds[p].access_token
                 /\ store.refresh_token = creds[p].refresh_token
        /\ (/\ ExchangeAnswered(p) /\ pc[p] = "done" /\ OkObject(resp[p])
            /\ AfterCode(p, "mkdir") /\ ~AfterCode(p, "chmod"))
              => /\ res[p] = RetThrow
                 /\ ~InEv(p, "onSuccess")

\* C27: no run of authenticateWithClaude invokes onError, with or without
\* the callback supplied; a flow whose code exchange failed, or whose save
\* rejected at mkdir or writeFile, has ended by rejecting.
C27_OnErrorNeverInvoked ==
    \A p \in Procs :
        op[p] = "authenticateWithClaude" =>
            /\ ~InEv(p, "onError")
            /\ (/\ ExchangeAnswered(p) /\ pc[p] = "done"
                /\ \/ FailedResponse(resp[p])
                   \/ AfterCode(p, "mkdir") /\ ~AfterCode(p, "chmod"))
                  => res[p] = RetThrow

\* A flow that was given all four callbacks, onError among them, exchanged
\* the code and rejected because writeFile of the save rejected.
C27_Witness ==
    \E p \in Procs :
        /\ op[p] = "authenticateWithClaude" /\ pc[p] = "done"
        /\ "onError" \in hooks[p]
        /\ OkObject(resp[p])
        /\ AfterCode(p, "writeFile") /\ ~AfterCode(p, "chmod")
        /\ res[p] = RetThrow

\* Callers p and q have both refreshed: q's invocation refreshed the initial
\* credential and saved, and p's previous call returned another token than
\* q's, which it can only have got from a refresh of its own.
BothRefreshed(p, q) ==
    /\ p # q
    /\ op[q] = "getClaudeAccessToken" /\ pc[q] = "done"
    /\ RefreshSucceeded(q) /\ InEv(q, "chmod")
    /\ prev[p].op = "getClaudeAccessToken" /\ prev[p].res.k = "string"
    /\ prev[p].res # res[q]

\* C24 as stated: under the rotating endpoint, an invocation made after two
\* refreshes of the same credential have both been saved, which loads the
\* stored credential when it is not fresh, returns a token.
C24_LostUpdateSelfCorrects ==
    \A p, q \in Procs :
        (/\ BothRefreshed(p, q)
         /\ op[p] = "getClaudeAccessToken" /\ pc[p] = "done"
         /\ PastCheck(p) /\ ~FreshAtCheck(p))
            => res[p].k = "string"

\* The process of the runner has exited.
RunnerExited == runner.pc = "exited"

\* The loop starts a further attempt only after a crash that the catch
\* block takes for recoverable, and only while fewer than two retries have
\* been made.
RetryRule ==
    (runner'.launches # runner.launches /\ runner.launches > 0) =>
        /\ runner.errorMessage = "recoverable"
        /\ runner.launches < MAX_CRASH_RETRIES
        /\ runner.crashAttempts = runner.launches
        /\ runner'.launches = runner.launches + 1

====
